---------------------------- MODULE Spec2Model ----------------------------
(***************************************************************************)
(* A model of package maps (src/maps.go): the helpers over plain maps, the *)
(* RWMutex-guarded Sync map and the Observable map built on it.            *)
(*                                                                         *)
(* A thread's position pc[t] is the source line it is about to execute     *)
(* (0: not inside any call of the package).  Go maps and *Sync values are  *)
(* references: heap and syncs are the allocated objects, refs and mrefs    *)
(* the references the calling program holds.                               *)
(***************************************************************************)
EXTENDS Integers, Sequences, FiniteSets, TLC

\* ------------------------------------------------------------- bounds
NumThreads == 2
NumKeys == 2
MaxVal == 2
MaxCalls == 2
MaxArgs == 2
MaxObs == 2

Threads == 1..NumThreads
Key == 1..NumKeys
Val == 0..MaxVal
Observers == 1..MaxObs

\* the zero value of K and of V (var zero V)
zero == 0

VARIABLES
    heap,     \* heap[m]: the contents of map object m, a function on a set of keys
    syncs,    \* syncs[s]: Sync object s, [data: its map, w, wl, r: its rw]
    refs,     \* the *Sync references the program holds, refs[1] from NewSync()
    mrefs,    \* the plain map references the program holds (0: a nil map)
    obs,      \* Observable.obs: the observers, in registration order
    pc,       \* pc[t]: the line thread t is about to execute, 0 outside any call
    fr,       \* fr[t]: thread t's arguments and locals
    ret,      \* ret[t]: how t's last call ended, with its frame at that moment
    calls,    \* calls started so far
    hist,     \* observer invocations and the Observable's stores and removals, in order
    fatal     \* the runtime stopped the program (fatal error, not recoverable)

vars == <<heap, syncs, refs, mrefs, obs, pc, fr, ret, calls, hist, fatal>>

\* ------------------------------------------------------------- maps
EmptyMap == [k \in {} |-> zero]

\* m[k] of a Go map: the zero value when k is absent
Lookup(m, k) == IF k \in DOMAIN m THEN m[k] ELSE zero

\* m[k] = v
Store(m, k, v) == [x \in (DOMAIN m) \cup {k} |-> IF x = k THEN v ELSE m[x]]

\* delete(m, k)
Remove(m, k) == [x \in (DOMAIN m) \ {k} |-> m[x]]

Len0(m) == Cardinality(DOMAIN m)

\* the maps over Key with values in Val
Maps == UNION {[D -> Val] : D \in SUBSET Key}

\* the callbacks the callers pass as test/del functions
Preds == {"key1", "nonzero", "all"}

Test(p, k, v) ==
    CASE p = "key1" -> k = 1
      [] p = "nonzero" -> v # zero
      [] OTHER -> TRUE

\* ------------------------------------------------------------- threads
Idle ==
    [op |-> "", h |-> 0, s |-> 0, key |-> zero, val |-> zero, keys |-> <<>>,
     p |-> "", i |-> 0, vis |-> {}, out |-> <<>>, snap |-> <<>>, lin |-> {},
     old |-> zero, new |-> zero, list |-> <<>>, j |-> 0, reg |-> <<>>, h0 |-> 0,
     ra |-> 0, cb |-> 0, ss |-> 0, pan |-> FALSE, up |-> <<>>]

\* what is kept of a call that ended: how it ended, its result, and of its frame
\* the receiver (the object and the reference it was called through), the
\* contents when the lock was taken, the admissible reads; a call that runs in
\* one step is stamped with its number in "at"
Ended(kind, v, f) ==
    [kind |-> kind, op |-> f.op, s |-> f.s, h |-> f.h, val |-> v, snap |-> f.snap,
     lin |-> f.lin, at |-> 0]

NoRet == Ended("none", <<>>, Idle)

\* NewSync: &Sync{data: make(map[K]V)} with the zero RWMutex
NewSync(m) == [data |-> m, w |-> 0, wl |-> FALSE, r |-> {}]

Data(s) == heap[syncs[s].data]

Goto(t, line) == pc' = [pc EXCEPT ![t] = line]

\* A call by thread t from outside the package: its arguments go to a fresh frame.
Enter(t, line, frame) ==
    /\ ~fatal
    /\ pc[t] = 0
    /\ calls < MaxCalls
    /\ calls' = calls + 1
    /\ Goto(t, line)
    /\ fr' = [fr EXCEPT ![t] = frame @@ Idle]

\* A call made by a function the package is running for thread t (f of Lock,
\* RLock or Each, an observer): the caller's position and frame are kept in up.
Reenter(t, line, frame) ==
    /\ ~fatal
    /\ fr[t].up = <<>>
    /\ Goto(t, line)
    /\ fr' = [fr EXCEPT ![t] = frame @@ [up |-> <<[pc |-> pc[t], fr |-> fr[t]]>>] @@ Idle]

\* The call returns v (kind "ok"), or a panic leaves it (kind "panic"): to the
\* program, or to the function that made the call; no method recovers, so a
\* panic leaves every call on the stack.
Leave(t, kind, v) ==
    IF fr[t].up = <<>> \/ kind = "panic"
    THEN /\ Goto(t, 0)
         /\ ret' = [ret EXCEPT ![t] = Ended(kind, v, fr[t])]
         /\ fr' = [fr EXCEPT ![t] = Idle]
    ELSE /\ Goto(t, fr[t].up[1].pc)
         /\ fr' = [fr EXCEPT ![t] = fr[t].up[1].fr]
         /\ UNCHANGED ret

Running(t, line) == ~fatal /\ pc[t] = line

\* ------------------------------------------------------------- sync.RWMutex
LockLines == {312, 384, 393, 404, 155, 188, 199, 211}
UnlockLines == {314, 388, 399, 406, 157, 193, 206, 213}
RLockLines == {282, 294, 327, 337, 347, 359, 374, 411}
RUnlockLines == {288, 300, 331, 341, 353, 360, 378, 413}

\* the statement after a lock call: Set's s.set(key, val) is line 318,
\* Observable.Set's o.set(key, val) is line 129, Find's line 360 only
\* registers the defer
AfterLock(line) ==
    CASE line = 312 -> 318
      [] line = 155 -> 129
      [] line = 359 -> 361
      [] OTHER -> line + 1

\* rw.Lock(), first half: the writer takes rw.w and announces itself to readers
CanAnnounce(s, t) == syncs[s].w = 0

CanLockReentrant(s, t) == syncs[s].w = t /\ syncs[s].r \subseteq {t}

\* rw.Lock(), second half: the announced writer waits for the readers to leave
CanLock(s, t) == syncs[s].w = t /\ ~syncs[s].wl /\ syncs[s].r = {}

\* rw.RLock(): blocks while a writer holds the lock or has announced itself
CanRLock(s, t) == syncs[s].w = 0

RWMutexLock(t) ==
    /\ ~fatal
    /\ pc[t] \in LockLines
    /\ LET s == fr[t].s IN
       \/ /\ CanAnnounce(s, t)
          /\ syncs' = [syncs EXCEPT ![s].w = t]
          /\ UNCHANGED <<pc, fr>>
       \/ /\ CanLock(s, t)
          /\ syncs' = [syncs EXCEPT ![s].wl = TRUE]
          /\ Goto(t, AfterLock(pc[t]))
          /\ fr' = [fr EXCEPT ![t].snap = Data(s), ![t].h0 = Len(hist)]
    /\ UNCHANGED <<heap, refs, mrefs, obs, ret, calls, hist, fatal>>

\* rw.Unlock(), and the return that follows it in every method
RWMutexUnlock(t) ==
    /\ ~fatal
    /\ pc[t] \in UnlockLines
    /\ LET s == fr[t].s IN
       /\ syncs[s].w = t /\ syncs[s].wl
       /\ syncs' = [syncs EXCEPT ![s].w = 0, ![s].wl = FALSE]
    /\ Leave(t, "ok", <<>>)
    /\ UNCHANGED <<heap, refs, mrefs, obs, calls, hist, fatal>>

RWMutexRLock(t) ==
    /\ ~fatal
    /\ pc[t] \in RLockLines
    /\ LET s == fr[t].s IN
       /\ CanRLock(s, t)
       /\ syncs' = [syncs EXCEPT ![s].r = @ \cup {t}]
       /\ fr' = [fr EXCEPT ![t].snap = Data(s)]
    /\ Goto(t, AfterLock(pc[t]))
    /\ UNCHANGED <<heap, refs, mrefs, obs, ret, calls, hist, fatal>>

\* rw.RUnlock(), and the return that follows it (Clone hands out its new *Sync)
RWMutexRUnlock(t) ==
    /\ ~fatal
    /\ pc[t] \in RUnlockLines
    /\ LET s == fr[t].s IN
       /\ t \in syncs[s].r
       /\ syncs' = [syncs EXCEPT ![s].r = @ \ {t}]
    /\ Leave(t, IF fr[t].pan THEN "panic" ELSE "ok", fr[t].out)
    /\ refs' = IF pc[t] = 331 THEN Append(refs, fr[t].ss) ELSE refs
    /\ UNCHANGED <<heap, mrefs, obs, calls, hist, fatal>>

\* ------------------------------------------------------------- Sync
\* the lines between a method's Lock and its Unlock, and between RLock and RUnlock
WriteSection == {318, 314, 385, 388, 394, 399, 405, 406}
ReadSection ==
    {283, 284, 288, 295, 296, 300, 328, 331, 338, 341, 348, 353, 360, 361,
     375, 378, 412, 413}
ObsWriteSection == {129, 125, 130, 157, 189, 191, 193, 200, 203, 206, 212, 213}

InWrite(t, s) == pc[t] \in WriteSection \cup ObsWriteSection /\ fr[t].s = s
InRead(t, s) == pc[t] \in ReadSection /\ fr[t].s = s

\* the keys a range over the map has not produced yet
Unvisited(t) == (DOMAIN Data(fr[t].s)) \ fr[t].vis

\* func (s *Sync[K, V]) Keys() []K
SyncKeysNoRLock(t, h) ==
    Enter(t, 283, [op |-> "Keys", h |-> h, s |-> refs[h], snap |-> Data(refs[h])])

SyncKeys(t, h) ==
    Enter(t, 282, [op |-> "Keys", h |-> h, s |-> refs[h], snap |-> Data(refs[h])])

SyncKeysBody(t) ==
    /\ \/ /\ Running(t, 283)
          /\ fr' = [fr EXCEPT ![t].i = 0,
                              ![t].out = [j \in 1..Len0(Data(fr[t].s)) |-> zero]]
          /\ Goto(t, 284)
          /\ UNCHANGED ret
       \/ /\ Running(t, 284)
          /\ \E k \in Unvisited(t) :
                IF fr[t].i < Len(fr[t].out)
                THEN /\ fr' = [fr EXCEPT ![t].out[fr[t].i + 1] = k,
                                         ![t].i = @ + 1,
                                         ![t].vis = @ \cup {k}]
                     /\ UNCHANGED <<pc, ret>>
                ELSE Leave(t, "panic", <<>>)
       \/ /\ Running(t, 284)
          /\ Unvisited(t) = {}
          /\ Goto(t, 288)
          /\ UNCHANGED <<fr, ret>>
    /\ UNCHANGED <<heap, syncs, refs, mrefs, obs, calls, hist, fatal>>

\* func (s *Sync[K, V]) Values() []V
SyncValues(t, h) ==
    Enter(t, 294, [op |-> "Values", h |-> h, s |-> refs[h], snap |-> Data(refs[h])])

SyncValuesBody(t) ==
    /\ \/ /\ Running(t, 295)
          /\ fr' = [fr EXCEPT ![t].i = 0,
                              ![t].out = [j \in 1..Len0(Data(fr[t].s)) |-> zero]]
          /\ Goto(t, 296)
          /\ UNCHANGED ret
       \/ /\ Running(t, 296)
          /\ \E k \in Unvisited(t) :
                IF fr[t].i < Len(fr[t].out)
                THEN /\ fr' = [fr EXCEPT ![t].out[fr[t].i + 1] = Data(fr[t].s)[k],
                                         ![t].i = @ + 1,
                                         ![t].vis = @ \cup {k}]
                     /\ UNCHANGED <<pc, ret>>
                ELSE Leave(t, "panic", <<>>)
       \/ /\ Running(t, 296)
          /\ Unvisited(t) = {}
          /\ Goto(t, 300)
          /\ UNCHANGED <<fr, ret>>
    /\ UNCHANGED <<heap, syncs, refs, mrefs, obs, calls, hist, fatal>>

\* The map writes a thread is about to make: the contents they would leave.
Afters(u) ==
    LET D == Data(fr[u].s) IN
    CASE pc[u] = 318 -> {Store(D, fr[u].key, fr[u].val)}
      [] pc[u] = 385 /\ fr[u].i < Len(fr[u].keys) -> {Remove(D, fr[u].keys[fr[u].i + 1])}
      [] pc[u] = 394 -> {Remove(D, k) : k \in {x \in Unvisited(u) : Test(fr[u].p, x, D[x])}}
      [] pc[u] = 130 -> {Store(D, fr[u].key, fr[u].new)}
      [] pc[u] \in {191, 203} -> {Remove(D, fr[u].key)}
      [] OTHER -> {}

\* What a read of s.data without the lock may meet: the contents after a write
\* another thread is making to the same map at that moment.
Racing(t, s) ==
    UNION {Afters(u) : u \in {x \in Threads \ {t} :
                                pc[x] # 0 /\ syncs[fr[x].s].data = syncs[s].data}}

\* func (s *Sync[K, V]) Size() int { return len(s.data) }
SyncSize(t, h) == Enter(t, 305, [op |-> "Size", h |-> h, s |-> refs[h]])

SyncSizeBody(t) ==
    /\ Running(t, 305)
    /\ \E n \in {Len0(Data(fr[t].s))} \cup {Len0(m) : m \in Racing(t, fr[t].s)} :
          Leave(t, "ok", n)
    /\ UNCHANGED <<heap, syncs, refs, mrefs, obs, calls, hist, fatal>>

\* func (s *Sync[K, V]) Get(key K) V { return s.data[key] }
SyncGet(t, h, key) ==
    Enter(t, 308, [op |-> "Get", h |-> h, s |-> refs[h], key |-> key])

\* A map read that overlaps a map write is a data race: the runtime may stop the
\* program (fatal error: concurrent map read and map write), or the lookup may
\* find the old entry, the new one, or miss the key.
SyncGetBody(t) ==
    /\ Running(t, 308)
    /\ LET s == fr[t].s
           k == fr[t].key
           cur == Lookup(Data(s), k)
           lin == {cur} \cup {Lookup(m, k) : m \in Racing(t, s)}
       IN  \/ /\ Racing(t, s) = {}
              /\ pc' = [pc EXCEPT ![t] = 0]
              /\ ret' = [ret EXCEPT ![t] = Ended("ok", cur, [fr[t] EXCEPT !.lin = lin])]
              /\ fr' = [fr EXCEPT ![t] = Idle]
              /\ UNCHANGED fatal
           \/ /\ Racing(t, s) # {}
              /\ \E v \in lin \cup {zero} :
                    /\ pc' = [pc EXCEPT ![t] = 0]
                    /\ ret' = [ret EXCEPT ![t] = Ended("ok", v, [fr[t] EXCEPT !.lin = lin])]
                    /\ fr' = [fr EXCEPT ![t] = Idle]
              /\ UNCHANGED fatal
           \/ /\ Racing(t, s) # {}
              /\ fatal' = TRUE
              /\ UNCHANGED <<pc, fr, ret>>
    /\ UNCHANGED <<heap, syncs, refs, mrefs, obs, calls, hist>>

\* func (s *Sync[K, V]) Set(key K, val V)
SyncSet(t, h, key, val) ==
    Enter(t, 312, [op |-> "Set", h |-> h, s |-> refs[h], key |-> key, val |-> val,
                   ra |-> 314])

SyncsetIfAbsent(t) ==
    /\ Running(t, 318)
    /\ heap' = [heap EXCEPT ![syncs[fr[t].s].data] =
                              IF fr[t].key \in DOMAIN @ THEN @ ELSE Store(@, fr[t].key, fr[t].val)]
    /\ Goto(t, fr[t].ra)
    /\ UNCHANGED <<syncs, refs, mrefs, obs, fr, ret, calls, hist, fatal>>

\* func (s *Sync[K, V]) set(key K, val V) { s.data[key] = val }
Syncset(t) ==
    /\ Running(t, 318)
    /\ heap' = [heap EXCEPT ![syncs[fr[t].s].data] = Store(@, fr[t].key, fr[t].val)]
    /\ Goto(t, fr[t].ra)
    /\ UNCHANGED <<syncs, refs, mrefs, obs, fr, ret, calls, hist, fatal>>

SyncCloneSharesData(t, h) ==
    IF h = 0
    THEN /\ ~fatal /\ pc[t] = 0 /\ calls < MaxCalls
         /\ calls' = calls + 1
         /\ ret' = [ret EXCEPT ![t] = [Ended("ok", 0, [op |-> "Clone"] @@ Idle)
                                           EXCEPT !.at = calls + 1]]
         /\ UNCHANGED <<heap, syncs, refs, mrefs, obs, pc, fr, hist, fatal>>
    ELSE /\ Enter(t, 327, [op |-> "Clone", h |-> h, s |-> refs[h],
                           ss |-> Len(syncs) + 1, out |-> Len(syncs) + 1])
         /\ syncs' = Append(syncs, NewSync(syncs[refs[h]].data))
         /\ UNCHANGED <<heap, refs, mrefs, obs, ret, hist, fatal>>

\* func (s *Sync[K, V]) Clone() *Sync[K, V]
SyncClone(t, h) ==
    IF h = 0
    THEN /\ ~fatal /\ pc[t] = 0 /\ calls < MaxCalls
         /\ calls' = calls + 1
         /\ ret' = [ret EXCEPT ![t] = [Ended("ok", 0, [op |-> "Clone"] @@ Idle)
                                           EXCEPT !.at = calls + 1]]
         /\ UNCHANGED <<heap, syncs, refs, mrefs, obs, pc, fr, hist, fatal>>
    ELSE /\ Enter(t, 327, [op |-> "Clone", h |-> h, s |-> refs[h],
                           ss |-> Len(syncs) + 1, out |-> Len(syncs) + 1])
         /\ heap' = Append(heap, EmptyMap)
         /\ syncs' = Append(syncs, NewSync(Len(heap) + 1))
         /\ UNCHANGED <<refs, mrefs, obs, ret, hist, fatal>>

SyncCloneBody(t) ==
    /\ Running(t, 328)
    /\ \/ /\ \E k \in Unvisited(t) :
                /\ heap' = [heap EXCEPT ![syncs[fr[t].ss].data] =
                                          Store(@, k, Data(fr[t].s)[k])]
                /\ fr' = [fr EXCEPT ![t].vis = @ \cup {k}]
          /\ UNCHANGED pc
       \/ /\ Unvisited(t) = {}
          /\ Goto(t, 331)
          /\ UNCHANGED <<heap, fr>>
    /\ UNCHANGED <<syncs, refs, mrefs, obs, ret, calls, hist, fatal>>

\* func (s *Sync[K, V]) Each(f func(K, V))
SyncEach(t, h) == Enter(t, 337, [op |-> "Each", h |-> h, s |-> refs[h]])

SyncEachBodyNotifies(t) ==
    /\ Running(t, 338)
    /\ \/ /\ \E k \in Unvisited(t) :
                /\ fr' = [fr EXCEPT ![t].vis = @ \cup {k},
                                    ![t].out = Append(@, <<k, Data(fr[t].s)[k]>>)]
                /\ hist' = IF obs = <<>> THEN hist
                           ELSE Append(hist, [e |-> "note", t |-> t, o |-> obs[1], key |-> k,
                                              new |-> Data(fr[t].s)[k],
                                              old |-> Data(fr[t].s)[k], reg |-> <<>>])
          /\ UNCHANGED <<pc, ret>>
       \/ /\ Unvisited(t) # {}
          /\ Leave(t, "panic", <<>>)
          /\ UNCHANGED hist
       \/ /\ Unvisited(t) = {}
          /\ Goto(t, 341)
          /\ UNCHANGED <<fr, ret, hist>>
    /\ UNCHANGED <<heap, syncs, refs, mrefs, obs, calls, fatal>>

SyncEachBody(t) ==
    /\ Running(t, 338)
    /\ \/ /\ \E k \in Unvisited(t) :
                fr' = [fr EXCEPT ![t].vis = @ \cup {k},
                                 ![t].out = Append(@, <<k, Data(fr[t].s)[k]>>)]
          /\ UNCHANGED <<pc, ret>>
       \/ /\ Unvisited(t) # {}
          /\ Leave(t, "panic", <<>>)
       \/ /\ Unvisited(t) = {}
          /\ Goto(t, 341)
          /\ UNCHANGED <<fr, ret>>
    /\ UNCHANGED <<heap, syncs, refs, mrefs, obs, calls, hist, fatal>>

SyncFilterBodyKeepsAll(t) ==
    /\ Running(t, 348)
    /\ \/ /\ \E k \in Unvisited(t) :
                /\ heap' = [heap EXCEPT ![fr[t].out] = Store(@, k, Data(fr[t].s)[k])]
                /\ fr' = [fr EXCEPT ![t].vis = @ \cup {k}]
          /\ UNCHANGED pc
       \/ /\ Unvisited(t) = {}
          /\ Goto(t, 353)
          /\ UNCHANGED <<heap, fr>>
    /\ UNCHANGED <<syncs, refs, mrefs, obs, ret, calls, hist, fatal>>

\* func (s *Sync[K, V]) Filter(f func(K, V) bool) map[K]V
SyncFilter(t, h, p) ==
    /\ Enter(t, 347, [op |-> "Filter", h |-> h, s |-> refs[h], p |-> p,
                      out |-> Len(heap) + 1])
    /\ heap' = Append(heap, EmptyMap)
    /\ UNCHANGED <<syncs, refs, mrefs, obs, ret, hist, fatal>>

SyncFilterBody(t) ==
    /\ Running(t, 348)
    /\ \/ /\ \E k \in Unvisited(t) :
                LET v == Data(fr[t].s)[k] IN
                /\ heap' = IF Test(fr[t].p, k, v)
                           THEN [heap EXCEPT ![fr[t].out] = Store(@, k, v)]
                           ELSE heap
                /\ fr' = [fr EXCEPT ![t].vis = @ \cup {k}]
          /\ UNCHANGED pc
       \/ /\ Unvisited(t) = {}
          /\ Goto(t, 353)
          /\ UNCHANGED <<heap, fr>>
    /\ UNCHANGED <<syncs, refs, mrefs, obs, ret, calls, hist, fatal>>

\* func (s *Sync[K, V]) Find(f func(K, V) bool) (_ K, _ V)
SyncFind(t, h, p) ==
    Enter(t, 359, [op |-> "Find", h |-> h, s |-> refs[h], p |-> p])

SyncFindBody(t) ==
    /\ Running(t, 361)
    /\ \/ \E k \in Unvisited(t) :
             LET v == Data(fr[t].s)[k] IN
             IF Test(fr[t].p, k, v)
             THEN /\ fr' = [fr EXCEPT ![t].out = <<k, v>>]
                  /\ Goto(t, 360)
             ELSE /\ fr' = [fr EXCEPT ![t].vis = @ \cup {k}]
                  /\ UNCHANGED pc
       \/ /\ Unvisited(t) # {}
          /\ fr' = [fr EXCEPT ![t].pan = TRUE]
          /\ Goto(t, 360)
       \/ /\ Unvisited(t) = {}
          /\ fr' = [fr EXCEPT ![t].out = <<zero, zero>>]
          /\ Goto(t, 360)
    /\ UNCHANGED <<heap, syncs, refs, mrefs, obs, ret, calls, hist, fatal>>

\* func ReduceSync(s *Sync[K, V], a A, f func(A, K, V) A) A, with f adding v to a
ReduceSync(t, h, a) ==
    IF h = 0
    THEN /\ ~fatal /\ pc[t] = 0 /\ calls < MaxCalls
         /\ calls' = calls + 1
         /\ ret' = [ret EXCEPT ![t] = Ended("ok", a, [op |-> "Reduce"] @@ Idle)]
         /\ UNCHANGED <<heap, syncs, refs, mrefs, obs, pc, fr, hist, fatal>>
    ELSE /\ Enter(t, 374, [op |-> "Reduce", h |-> h, s |-> refs[h], out |-> a])
         /\ UNCHANGED <<heap, syncs, refs, mrefs, obs, ret, hist, fatal>>

ReduceSyncBody(t) ==
    /\ Running(t, 375)
    /\ \/ /\ \E k \in Unvisited(t) :
                fr' = [fr EXCEPT ![t].out = @ + Data(fr[t].s)[k],
                                 ![t].vis = @ \cup {k}]
          /\ UNCHANGED pc
       \/ /\ Unvisited(t) = {}
          /\ Goto(t, 378)
          /\ UNCHANGED fr
    /\ UNCHANGED <<heap, syncs, refs, mrefs, obs, ret, calls, hist, fatal>>

\* func (s *Sync[K, V]) Delete(keys ...K)
SyncDelete(t, h, keys) ==
    Enter(t, 384, [op |-> "Delete", h |-> h, s |-> refs[h], keys |-> keys])

SyncDeleteBody(t) ==
    /\ Running(t, 385)
    /\ \/ /\ fr[t].i < Len(fr[t].keys)
          /\ heap' = [heap EXCEPT ![syncs[fr[t].s].data] =
                                    Remove(@, fr[t].keys[fr[t].i + 1])]
          /\ fr' = [fr EXCEPT ![t].i = @ + 1]
          /\ UNCHANGED pc
       \/ /\ fr[t].i = Len(fr[t].keys)
          /\ Goto(t, 388)
          /\ UNCHANGED <<heap, fr>>
    /\ UNCHANGED <<syncs, refs, mrefs, obs, ret, calls, hist, fatal>>

\* func (s *Sync[K, V]) DeleteFunc(del func(K, V) bool)
SyncDeleteFunc(t, h, p) ==
    Enter(t, 393, [op |-> "DeleteFunc", h |-> h, s |-> refs[h], p |-> p])

SyncDeleteFuncBody(t) ==
    /\ Running(t, 394)
    /\ \/ /\ \E k \in Unvisited(t) :
                /\ heap' = IF Test(fr[t].p, k, Data(fr[t].s)[k])
                           THEN [heap EXCEPT ![syncs[fr[t].s].data] = Remove(@, k)]
                           ELSE heap
                /\ fr' = [fr EXCEPT ![t].vis = @ \cup {k}]
          /\ UNCHANGED pc
       \/ /\ Unvisited(t) = {}
          /\ Goto(t, 399)
          /\ UNCHANGED <<heap, fr>>
    /\ UNCHANGED <<syncs, refs, mrefs, obs, ret, calls, hist, fatal>>

\* func (s *Sync[K, V]) Lock(f func(set func(K, V)))
SyncLock(t, h) == Enter(t, 404, [op |-> "Lock", h |-> h, s |-> refs[h], ra |-> 405])

\* f(s.set): f calls the setter it was given, returns, or panics
SyncLockBody(t) ==
    /\ Running(t, 405)
    /\ \/ /\ fr[t].i < MaxArgs
          /\ \E k \in Key, v \in Val :
                fr' = [fr EXCEPT ![t].key = k, ![t].val = v, ![t].i = @ + 1]
          /\ Goto(t, 318)
          /\ UNCHANGED ret
       \/ /\ Goto(t, 406)
          /\ UNCHANGED <<fr, ret>>
       \/ Leave(t, "panic", <<>>)
    /\ UNCHANGED <<heap, syncs, refs, mrefs, obs, calls, hist, fatal>>

\* func (s *Sync[K, V]) RLock(f func())
SyncRLock(t, h) == Enter(t, 411, [op |-> "RLock", h |-> h, s |-> refs[h]])

\* f(): f returns or panics
SyncRLockBody(t) ==
    /\ Running(t, 412)
    /\ \/ /\ Goto(t, 413)
          /\ UNCHANGED <<fr, ret>>
       \/ Leave(t, "panic", <<>>)
    /\ UNCHANGED <<heap, syncs, refs, mrefs, obs, calls, hist, fatal>>

\* ------------------------------------------------------------- the Sync map
KeySeqs == UNION {[1..n -> Key] : n \in 0..MaxArgs}

\* The contents Set calls made before the threads start leave in the map.
InitMaps == {[k \in D |-> IF k <= MaxVal THEN k ELSE MaxVal] : D \in {{}, {1}, Key}}

Init ==
    /\ heap \in {<<m>> : m \in InitMaps}
    /\ syncs = <<NewSync(1)>>
    /\ refs = <<1>>
    /\ mrefs = <<>>
    /\ obs = <<>>
    /\ pc = [t \in Threads |-> 0]
    /\ fr = [t \in Threads |-> Idle]
    /\ ret = [t \in Threads |-> NoRet]
    /\ calls = 0
    /\ hist = <<>>
    /\ fatal = FALSE

\* the calls of the threads that share the Sync map refs[1]
SyncCall(t) ==
    \/ /\ \/ SyncKeys(t, 1)
          \/ SyncValues(t, 1)
          \/ SyncSize(t, 1)
          \/ \E k \in Key : SyncGet(t, 1, k)
          \/ \E k \in Key, v \in Val : SyncSet(t, 1, k, v)
          \/ SyncEach(t, 1)
          \/ \E p \in Preds : SyncFind(t, 1, p)
          \/ \E ks \in KeySeqs : SyncDelete(t, 1, ks)
          \/ \E p \in Preds : SyncDeleteFunc(t, 1, p)
          \/ SyncLock(t, 1)
          \/ SyncRLock(t, 1)
       /\ UNCHANGED <<heap, syncs, refs, mrefs, obs, ret, hist, fatal>>
    \/ \E h \in {0, 1} : SyncClone(t, h)
    \/ \E p \in Preds : SyncFilter(t, 1, p)
    \/ \E h \in {0, 1}, a \in Val : ReduceSync(t, h, a)

SyncStep(t) ==
    \/ RWMutexLock(t)
    \/ RWMutexUnlock(t)
    \/ RWMutexRLock(t)
    \/ RWMutexRUnlock(t)
    \/ SyncKeysBody(t)
    \/ SyncValuesBody(t)
    \/ SyncSizeBody(t)
    \/ SyncGetBody(t)
    \/ Syncset(t)
    \/ SyncCloneBody(t)
    \/ SyncEachBody(t)
    \/ SyncFilterBody(t)
    \/ SyncFindBody(t)
    \/ ReduceSyncBody(t)
    \/ SyncDeleteBody(t)
    \/ SyncDeleteFuncBody(t)
    \/ SyncLockBody(t)
    \/ SyncRLockBody(t)

Next == \E t \in Threads : SyncCall(t) \/ SyncStep(t)

Spec == Init /\ [][Next]_vars

\* ------------------------------------------------------------- the Sync map under fair scheduling
\* the calls of the threads that share the Sync map refs[1]
FairCall(t) ==
    /\ \/ SyncKeys(t, 1)
       \/ SyncSize(t, 1)
       \/ \E k \in Key : SyncGet(t, 1, k)
       \/ \E k \in Key : SyncSet(t, 1, k, MaxVal)
       \/ SyncEach(t, 1)
       \/ \E k \in Key : SyncDelete(t, 1, <<k>>)
       \/ SyncLock(t, 1)
       \/ SyncRLock(t, 1)
    /\ UNCHANGED <<heap, syncs, refs, mrefs, obs, ret, hist, fatal>>

FairStep(t) ==
    \/ RWMutexLock(t)
    \/ RWMutexUnlock(t)
    \/ RWMutexRLock(t)
    \/ RWMutexRUnlock(t)
    \/ SyncKeysBody(t)
    \/ SyncSizeBody(t)
    \/ SyncGetBody(t)
    \/ Syncset(t)
    \/ SyncEachBody(t)
    \/ SyncDeleteBody(t)
    \/ SyncLockBody(t)
    \/ SyncRLockBody(t)

\* a step of thread t in which no callback panics: every f returns
Terminating(t) == FairStep(t) /\ ret'[t].kind # "panic"

NextFair == \E t \in Threads : FairCall(t) \/ Terminating(t)

\* The scheduler runs every goroutine that can take a step, and a goroutine
\* waiting in rw.Lock() or rw.RLock() is handed the lock when it is free again
\* and again.
Fairness ==
    \A t \in Threads :
        /\ WF_vars(Terminating(t))
        /\ SF_vars(RWMutexLock(t))
        /\ SF_vars(RWMutexRLock(t))

SpecFair == Init /\ [][NextFair]_vars /\ Fairness

\* ------------------------------------------------------------- Observable
\* NewObservable: the embedded Sync is object 1, o.obs the variable obs
ObsSync == 1

Note(t, o, key, new, old) ==
    [e |-> "note", t |-> t, o |-> o, key |-> key, new |-> new, old |-> old, reg |-> <<>>]

\* a store or a removal, with the value it replaced and the observers registered
\* when its notification began
Change(e, t, key, new, old, reg) ==
    [e |-> e, t |-> t, o |-> 0, key |-> key, new |-> new, old |-> old, reg |-> reg]

\* another thread is between reading o.obs and writing the appended slice back
ObserveRacing(t) == \E u \in Threads \ {t} : pc[u] = 162 /\ fr[u].j = 1

\* o.callback(key, new, old) is entered: its range takes o.obs once.  A read of
\* o.obs that overlaps Observe's write of it is a data race: the slice header
\* read may be the old one, the new one, or torn (the program stops).
StartCallback(t, key, new, old, cb) ==
    \/ /\ fr' = [fr EXCEPT ![t].key = key, ![t].new = new, ![t].old = old,
                            ![t].list = obs, ![t].reg = obs, ![t].j = 0, ![t].cb = cb]
       /\ Goto(t, 125)
       /\ UNCHANGED fatal
    \/ /\ ObserveRacing(t)
       /\ fatal' = TRUE
       /\ UNCHANGED <<pc, fr>>

\* func (o *Observable[K, V]) callback(key K, new, old V): each observer in turn
\* returns or panics
Observablecallback(t) ==
    /\ Running(t, 125)
    /\ \/ /\ fr[t].j < Len(fr[t].list)
          /\ hist' = Append(hist, Note(t, fr[t].list[fr[t].j + 1], fr[t].key,
                                       fr[t].new, fr[t].old))
          /\ \/ /\ fr' = [fr EXCEPT ![t].j = @ + 1]
                /\ UNCHANGED <<pc, ret>>
             \/ Leave(t, "panic", "observer")
       \/ /\ fr[t].j = Len(fr[t].list)
          /\ Goto(t, fr[t].cb)
          /\ UNCHANGED <<fr, ret, hist>>
    /\ UNCHANGED <<heap, syncs, refs, mrefs, obs, calls, fatal>>

ObservablesetOldIsNew(t) ==
    \/ /\ Running(t, 129)
       /\ StartCallback(t, fr[t].key, fr[t].new, fr[t].new, 130)
       /\ UNCHANGED <<heap, syncs, refs, mrefs, obs, ret, calls, hist>>
    \/ /\ Running(t, 130)
       /\ heap' = [heap EXCEPT ![syncs[ObsSync].data] = Store(@, fr[t].key, fr[t].new)]
       /\ hist' = Append(hist, Change("store", t, fr[t].key, fr[t].new,
                                      Lookup(Data(ObsSync), fr[t].key), fr[t].reg))
       /\ Goto(t, fr[t].ra)
       /\ UNCHANGED <<syncs, refs, mrefs, obs, fr, ret, calls, fatal>>

ObservablesetStoresFirst(t) ==
    \/ /\ Running(t, 129)
       /\ StartCallback(t, fr[t].key, fr[t].new, Lookup(Data(ObsSync), fr[t].key), 130)
       /\ heap' = [heap EXCEPT ![syncs[ObsSync].data] = Store(@, fr[t].key, fr[t].new)]
       /\ UNCHANGED <<syncs, refs, mrefs, obs, ret, calls, hist>>
    \/ /\ Running(t, 130)
       /\ heap' = [heap EXCEPT ![syncs[ObsSync].data] = Store(@, fr[t].key, fr[t].new)]
       /\ hist' = Append(hist, Change("store", t, fr[t].key, fr[t].new,
                                      fr[t].old, fr[t].reg))
       /\ Goto(t, fr[t].ra)
       /\ UNCHANGED <<syncs, refs, mrefs, obs, fr, ret, calls, fatal>>

\* func (o *Observable[K, V]) set(key K, val V)
Observableset(t) ==
    \/ /\ Running(t, 129)
       /\ StartCallback(t, fr[t].key, fr[t].new, Lookup(Data(ObsSync), fr[t].key), 130)
       /\ UNCHANGED <<heap, syncs, refs, mrefs, obs, ret, calls, hist>>
    \/ /\ Running(t, 130)
       /\ heap' = [heap EXCEPT ![syncs[ObsSync].data] = Store(@, fr[t].key, fr[t].new)]
       /\ hist' = Append(hist, Change("store", t, fr[t].key, fr[t].new,
                                      Lookup(Data(ObsSync), fr[t].key), fr[t].reg))
       /\ Goto(t, fr[t].ra)
       /\ UNCHANGED <<syncs, refs, mrefs, obs, fr, ret, calls, fatal>>

\* func (o *Observable[K, V]) Get(key K) V { return o.sync.Get(key) }
ObservableGet(t, key) == SyncGet(t, ObsSync, key)

\* func (o *Observable[K, V]) Size() int { return o.sync.Size() }
ObservableSize(t) == SyncSize(t, ObsSync)

ObservableSetNoLock(t, key, val) ==
    Enter(t, 129, [op |-> "O.Set", h |-> 1, s |-> ObsSync, key |-> key, new |-> val,
                   ra |-> 157])

\* func (o *Observable[K, V]) Set(key K, val V)
ObservableSet(t, key, val) ==
    Enter(t, 155, [op |-> "O.Set", h |-> 1, s |-> ObsSync, key |-> key, new |-> val,
                   ra |-> 157])

\* func (o *Observable[K, V]) Observe(f Observer[K, V]): o.obs = append(o.obs, f)
ObservableObserve(t, f) ==
    Enter(t, 162, [op |-> "O.Observe", h |-> 1, s |-> ObsSync, val |-> f])

ObservableObserveBody(t) ==
    /\ Running(t, 162)
    /\ \/ /\ fr[t].j = 0
          /\ fr' = [fr EXCEPT ![t].list = obs, ![t].j = 1]
          /\ UNCHANGED <<obs, pc, ret>>
       \/ /\ fr[t].j = 1
          /\ obs' = Append(fr[t].list, fr[t].val)
          /\ Leave(t, "ok", <<>>)
    /\ UNCHANGED <<heap, syncs, refs, mrefs, calls, hist, fatal>>

\* func (o *Observable[K, V]) Delete(keys ...K)
ObservableDelete(t, keys) ==
    Enter(t, 188, [op |-> "O.Delete", h |-> 1, s |-> ObsSync, keys |-> keys])

ObservableDeleteBodySkipsAbsent(t) ==
    \/ /\ Running(t, 189)
       /\ fr[t].i < Len(fr[t].keys)
       /\ LET key == fr[t].keys[fr[t].i + 1] IN
          IF key \in DOMAIN Data(ObsSync)
          THEN StartCallback(t, key, zero, Lookup(Data(ObsSync), key), 191)
          ELSE /\ fr' = [fr EXCEPT ![t].key = key, ![t].reg = obs]
               /\ Goto(t, 191)
               /\ UNCHANGED fatal
       /\ UNCHANGED <<heap, syncs, refs, mrefs, obs, ret, calls, hist>>
    \/ /\ Running(t, 189)
       /\ fr[t].i = Len(fr[t].keys)
       /\ Goto(t, 193)
       /\ UNCHANGED <<heap, syncs, refs, mrefs, obs, fr, ret, calls, hist, fatal>>
    \/ /\ Running(t, 191)
       /\ heap' = [heap EXCEPT ![syncs[ObsSync].data] = Remove(@, fr[t].key)]
       /\ hist' = Append(hist, Change("delete", t, fr[t].key, zero,
                                      Lookup(Data(ObsSync), fr[t].key), fr[t].reg))
       /\ fr' = [fr EXCEPT ![t].i = @ + 1]
       /\ Goto(t, 189)
       /\ UNCHANGED <<syncs, refs, mrefs, obs, ret, calls, fatal>>

ObservableDeleteBody(t) ==
    \/ /\ Running(t, 189)
       /\ fr[t].i < Len(fr[t].keys)
       /\ LET key == fr[t].keys[fr[t].i + 1] IN
          StartCallback(t, key, zero, Lookup(Data(ObsSync), key), 191)
       /\ UNCHANGED <<heap, syncs, refs, mrefs, obs, ret, calls, hist>>
    \/ /\ Running(t, 189)
       /\ fr[t].i = Len(fr[t].keys)
       /\ Goto(t, 193)
       /\ UNCHANGED <<heap, syncs, refs, mrefs, obs, fr, ret, calls, hist, fatal>>
    \/ /\ Running(t, 191)
       /\ heap' = [heap EXCEPT ![syncs[ObsSync].data] = Remove(@, fr[t].key)]
       /\ hist' = Append(hist, Change("delete", t, fr[t].key, zero,
                                      Lookup(Data(ObsSync), fr[t].key), fr[t].reg))
       /\ fr' = [fr EXCEPT ![t].i = @ + 1]
       /\ Goto(t, 189)
       /\ UNCHANGED <<syncs, refs, mrefs, obs, ret, calls, fatal>>

\* func (o *Observable[K, V]) DeleteFunc(del func(K, V) bool)
ObservableDeleteFunc(t, p) ==
    Enter(t, 199, [op |-> "O.DeleteFunc", h |-> 1, s |-> ObsSync, p |-> p])

ObservableDeleteFuncBodySilent(t) ==
    \/ /\ Running(t, 200)
       /\ \E k \in Unvisited(t) :
             LET v == Data(ObsSync)[k] IN
             IF Test(fr[t].p, k, v)
             THEN /\ fr' = [fr EXCEPT ![t].key = k, ![t].new = zero, ![t].old = v,
                                      ![t].reg = obs]
                  /\ Goto(t, 203)
                  /\ UNCHANGED fatal
             ELSE /\ fr' = [fr EXCEPT ![t].vis = @ \cup {k}]
                  /\ UNCHANGED <<pc, fatal>>
       /\ UNCHANGED <<heap, syncs, refs, mrefs, obs, ret, calls, hist>>
    \/ /\ Running(t, 200)
       /\ Unvisited(t) = {}
       /\ Goto(t, 206)
       /\ UNCHANGED <<heap, syncs, refs, mrefs, obs, fr, ret, calls, hist, fatal>>
    \/ /\ Running(t, 203)
       /\ heap' = [heap EXCEPT ![syncs[ObsSync].data] = Remove(@, fr[t].key)]
       /\ hist' = Append(hist, Change("delete", t, fr[t].key, zero,
                                      Lookup(Data(ObsSync), fr[t].key), fr[t].reg))
       /\ Goto(t, 200)
       /\ UNCHANGED <<syncs, refs, mrefs, obs, fr, ret, calls, fatal>>

ObservableDeleteFuncBody(t) ==
    \/ /\ Running(t, 200)
       /\ \E k \in Unvisited(t) :
             LET v == Data(ObsSync)[k] IN
             IF Test(fr[t].p, k, v)
             THEN StartCallback(t, k, zero, v, 203)
             ELSE /\ fr' = [fr EXCEPT ![t].vis = @ \cup {k}]
                  /\ UNCHANGED <<pc, fatal>>
       /\ UNCHANGED <<heap, syncs, refs, mrefs, obs, ret, calls, hist>>
    \/ /\ Running(t, 200)
       /\ Unvisited(t) = {}
       /\ Goto(t, 206)
       /\ UNCHANGED <<heap, syncs, refs, mrefs, obs, fr, ret, calls, hist, fatal>>
    \/ /\ Running(t, 203)
       /\ heap' = [heap EXCEPT ![syncs[ObsSync].data] = Remove(@, fr[t].key)]
       /\ hist' = Append(hist, Change("delete", t, fr[t].key, zero,
                                      Lookup(Data(ObsSync), fr[t].key), fr[t].reg))
       /\ Goto(t, 200)
       /\ UNCHANGED <<syncs, refs, mrefs, obs, fr, ret, calls, fatal>>

\* func (o *Observable[K, V]) Lock(f func(set func(K, V)))
ObservableLock(t) ==
    Enter(t, 211, [op |-> "O.Lock", h |-> 1, s |-> ObsSync, ra |-> 212])

ObservableLockBodyStoresDirectly(t) ==
    /\ Running(t, 212)
    /\ \/ /\ fr[t].i < MaxArgs
          /\ \E k \in Key, v \in Val :
                /\ fr' = [fr EXCEPT ![t].key = k, ![t].new = v, ![t].i = @ + 1]
                /\ heap' = [heap EXCEPT ![syncs[ObsSync].data] = Store(@, k, v)]
                /\ hist' = Append(hist, Change("store", t, k, v,
                                               Lookup(Data(ObsSync), k), obs))
          /\ UNCHANGED <<pc, ret>>
       \/ /\ Goto(t, 213)
          /\ UNCHANGED <<heap, fr, ret, hist>>
       \/ /\ Leave(t, "panic", <<>>)
          /\ UNCHANGED <<heap, hist>>
    /\ UNCHANGED <<syncs, refs, mrefs, obs, calls, fatal>>

\* f(o.set): f calls the setter it was given, returns, or panics
ObservableLockBody(t) ==
    /\ Running(t, 212)
    /\ \/ /\ fr[t].i < MaxArgs
          /\ \E k \in Key, v \in Val :
                fr' = [fr EXCEPT ![t].key = k, ![t].new = v, ![t].i = @ + 1]
          /\ Goto(t, 129)
          /\ UNCHANGED ret
       \/ /\ Goto(t, 213)
          /\ UNCHANGED <<fr, ret>>
       \/ Leave(t, "panic", <<>>)
    /\ UNCHANGED <<heap, syncs, refs, mrefs, obs, calls, hist, fatal>>

\* func (o *Observable[K, V]) Keys() []K { return o.sync.Keys() }
ObservableKeys(t) == SyncKeys(t, ObsSync)

\* func (o *Observable[K, V]) Values() []V { return o.sync.Values() }
ObservableValues(t) == SyncValues(t, ObsSync)

\* func (o *Observable[K, V]) Each(f func(K, V)) { o.sync.Each(f) }
ObservableEach(t) == SyncEach(t, ObsSync)

\* func (o *Observable[K, V]) Filter(f func(K, V) bool) map[K]V
ObservableFilter(t, p) == SyncFilter(t, ObsSync, p)

\* func (o *Observable[K, V]) Find(f func(K, V) bool) (key K, val V)
ObservableFind(t, p) == SyncFind(t, ObsSync, p)

\* func ReduceObservable(o *Observable[K, V], a A, f func(A, K, V) A) A
ReduceObservable(t, a) == ReduceSync(t, ObsSync, a)

\* func (o *Observable[K, V]) RLock(f func()) { o.sync.RLock(f) }
ObservableRLock(t) == SyncRLock(t, ObsSync)

\* ------------------------------------------------------------- the Observable map
\* the observers registered before the threads start
InitObs == {<<>>, <<1, 2>>}

\* the stores that left m in the map, made before any observer was registered
InitHist(m) ==
    LET ks == CHOOSE q \in [1..Len0(m) -> DOMAIN m] :
                  \A a, b \in 1..Len0(m) : a < b => q[a] < q[b]
    IN  [x \in 1..Len0(m) |-> Change("store", 0, ks[x], m[ks[x]], zero, <<>>)]

InitObservable ==
    /\ heap \in {<<m>> : m \in InitMaps}
    /\ syncs = <<NewSync(1)>>
    /\ refs = <<1>>
    /\ mrefs = <<>>
    /\ obs \in InitObs
    /\ pc = [t \in Threads |-> 0]
    /\ fr = [t \in Threads |-> Idle]
    /\ ret = [t \in Threads |-> NoRet]
    /\ calls = 0
    /\ hist = InitHist(heap[1])
    /\ fatal = FALSE

ObservableCall(t) ==
    /\ \/ \E k \in Key, v \in Val : ObservableSet(t, k, v)
       \/ \E f \in Observers : ObservableObserve(t, f)
       \/ \E ks \in KeySeqs : ObservableDelete(t, ks)
       \/ \E p \in Preds : ObservableDeleteFunc(t, p)
       \/ ObservableLock(t)
       \/ \E k \in Key : ObservableGet(t, k)
       \/ ObservableSize(t)
    /\ UNCHANGED <<heap, syncs, refs, mrefs, obs, ret, hist, fatal>>

ObservableStep(t) ==
    \/ RWMutexLock(t)
    \/ RWMutexUnlock(t)
    \/ SyncGetBody(t)
    \/ SyncSizeBody(t)
    \/ Observablecallback(t)
    \/ Observableset(t)
    \/ ObservableObserveBody(t)
    \/ ObservableDeleteBody(t)
    \/ ObservableDeleteFuncBody(t)
    \/ ObservableLockBody(t)

NextObservable == \E t \in Threads : ObservableCall(t) \/ ObservableStep(t)

SpecObservable == InitObservable /\ [][NextObservable]_vars

\* ------------------------------------------------------------- the Observable map and its readers
\* two observers were registered before the threads start
InitObservableReads ==
    /\ heap \in {<<m>> : m \in InitMaps}
    /\ syncs = <<NewSync(1)>>
    /\ refs = <<1>>
    /\ mrefs = <<>>
    /\ obs = <<1, 2>>
    /\ pc = [t \in Threads |-> 0]
    /\ fr = [t \in Threads |-> Idle]
    /\ ret = [t \in Threads |-> NoRet]
    /\ calls = 0
    /\ hist = InitHist(heap[1])
    /\ fatal = FALSE

ObservableReadCall(t) ==
    \/ /\ \/ ObservableKeys(t)
          \/ ObservableValues(t)
          \/ ObservableSize(t)
          \/ \E k \in Key : ObservableGet(t, k)
          \/ ObservableEach(t)
          \/ \E p \in Preds : ObservableFind(t, p)
          \/ ObservableRLock(t)
       /\ UNCHANGED <<heap, syncs, refs, mrefs, obs, ret, hist, fatal>>
    \/ \E p \in Preds : ObservableFilter(t, p)
    \/ \E a \in Val : ReduceObservable(t, a)

ObservableWriteCall(t) ==
    /\ \/ \E k \in Key, v \in Val : ObservableSet(t, k, v)
       \/ \E ks \in KeySeqs : ObservableDelete(t, ks)
       \/ \E p \in Preds : ObservableDeleteFunc(t, p)
       \/ ObservableLock(t)
    /\ UNCHANGED <<heap, syncs, refs, mrefs, obs, ret, hist, fatal>>

ObservableReadStep(t) ==
    \/ RWMutexRLock(t)
    \/ RWMutexRUnlock(t)
    \/ SyncKeysBody(t)
    \/ SyncValuesBody(t)
    \/ SyncSizeBody(t)
    \/ SyncGetBody(t)
    \/ SyncEachBody(t)
    \/ SyncFilterBody(t)
    \/ SyncFindBody(t)
    \/ ReduceSyncBody(t)
    \/ SyncRLockBody(t)

ObservableWriteStep(t) ==
    \/ RWMutexLock(t)
    \/ RWMutexUnlock(t)
    \/ Observablecallback(t)
    \/ Observableset(t)
    \/ ObservableDeleteBody(t)
    \/ ObservableDeleteFuncBody(t)
    \/ ObservableLockBody(t)

NextObservableReads ==
    \E t \in Threads :
        \/ ObservableReadCall(t)
        \/ ObservableWriteCall(t)
        \/ ObservableReadStep(t)
        \/ ObservableWriteStep(t)

SpecObservableReads == InitObservableReads /\ [][NextObservableReads]_vars

\* ------------------------------------------------------------- calls made by callbacks
\* f of Sync.Lock (line 405), of Sync.RLock (412) or of Sync.Each (338, called for
\* an entry) calls Set on the map it runs under
CallbackSet(t, key, val) ==
    /\ pc[t] \in {405, 412} \/ (pc[t] = 338 /\ Unvisited(t) # {})
    /\ Reenter(t, 312, [op |-> "Set", h |-> fr[t].h, s |-> fr[t].s, key |-> key,
                        val |-> val, ra |-> 314])
    /\ UNCHANGED <<heap, syncs, refs, mrefs, obs, ret, calls, hist, fatal>>

\* ... or Delete
CallbackDelete(t, keys) ==
    /\ pc[t] \in {405, 412} \/ (pc[t] = 338 /\ Unvisited(t) # {})
    /\ Reenter(t, 384, [op |-> "Delete", h |-> fr[t].h, s |-> fr[t].s, keys |-> keys])
    /\ UNCHANGED <<heap, syncs, refs, mrefs, obs, ret, calls, hist, fatal>>

\* an observer being notified (line 125) calls Set on the Observable
ObserverSet(t, key, val) ==
    /\ pc[t] = 125 /\ fr[t].j < Len(fr[t].list)
    /\ Reenter(t, 155, [op |-> "O.Set", h |-> 1, s |-> ObsSync, key |-> key,
                        new |-> val, ra |-> 157])
    /\ UNCHANGED <<heap, syncs, refs, mrefs, obs, ret, calls, hist, fatal>>

\* ... or Delete
ObserverDelete(t, keys) ==
    /\ pc[t] = 125 /\ fr[t].j < Len(fr[t].list)
    /\ Reenter(t, 188, [op |-> "O.Delete", h |-> 1, s |-> ObsSync, keys |-> keys])
    /\ UNCHANGED <<heap, syncs, refs, mrefs, obs, ret, calls, hist, fatal>>

\* An Observable with one observer (its Sync is object 1) and a Sync map
\* (object 2, the program's refs[1]).
InitReentrant ==
    /\ heap \in {<<m, m>> : m \in InitMaps}
    /\ syncs = <<NewSync(1), NewSync(2)>>
    /\ refs = <<2>>
    /\ mrefs = <<>>
    /\ obs = <<1>>
    /\ pc = [t \in Threads |-> 0]
    /\ fr = [t \in Threads |-> Idle]
    /\ ret = [t \in Threads |-> NoRet]
    /\ calls = 0
    /\ hist = InitHist(heap[1])
    /\ fatal = FALSE

ReentrantCall(t) ==
    /\ \/ SyncLock(t, 1)
       \/ SyncRLock(t, 1)
       \/ SyncEach(t, 1)
       \/ SyncKeys(t, 1)
       \/ \E k \in Key : SyncSet(t, 1, k, MaxVal)
       \/ \E k \in Key : SyncDelete(t, 1, <<k>>)
       \/ \E k \in Key : ObservableSet(t, k, MaxVal)
       \/ \E k \in Key : ObservableDelete(t, <<k>>)
       \/ \E k \in Key : CallbackSet(t, k, MaxVal)
       \/ \E k \in Key : CallbackDelete(t, <<k>>)
       \/ \E k \in Key : ObserverSet(t, k, MaxVal)
       \/ \E k \in Key : ObserverDelete(t, <<k>>)
    /\ UNCHANGED <<heap, syncs, refs, mrefs, obs, ret, hist, fatal>>

ReentrantStep(t) ==
    \/ RWMutexLock(t)
    \/ RWMutexUnlock(t)
    \/ RWMutexRLock(t)
    \/ RWMutexRUnlock(t)
    \/ SyncLockBody(t)
    \/ SyncRLockBody(t)
    \/ SyncEachBody(t)
    \/ SyncKeysBody(t)
    \/ Syncset(t)
    \/ SyncDeleteBody(t)
    \/ Observablecallback(t)
    \/ Observableset(t)
    \/ ObservableDeleteBody(t)

NextReentrant == \E t \in Threads : ReentrantCall(t) \/ ReentrantStep(t)

SpecReentrant == InitReentrant /\ [][NextReentrant]_vars

\* ------------------------------------------------------------- helpers over plain maps
\* for k, v := range src { dst[k] = v }, the entries of todo still to come
RECURSIVE RangeCopy(_, _, _)
RangeCopy(dst, src, todo) ==
    IF todo = {} THEN dst
    ELSE LET k == CHOOSE x \in todo : TRUE
         IN  RangeCopy(Store(dst, k, src[k]), src, todo \ {k})

\* for k, v := range m { if del(k, v) { delete(m, k) } }
RECURSIVE RangeDelete(_, _, _)
RangeDelete(m, p, todo) ==
    IF todo = {} THEN m
    ELSE LET k == CHOOSE x \in todo : TRUE
         IN  RangeDelete(IF Test(p, k, m[k]) THEN Remove(m, k) ELSE m, p, todo \ {k})

\* the map a reference held by the program names (0: the nil map)
MapOf(i) == IF i = 0 THEN 0 ELSE mrefs[i]

\* A helper call runs from entry to return in one step.
Helper(t, op, i, v) ==
    /\ ~fatal /\ pc[t] = 0 /\ calls < MaxCalls
    /\ calls' = calls + 1
    /\ ret' = [ret EXCEPT ![t] = [Ended("ok", v, [op |-> op, h |-> i] @@ Idle)
                                      EXCEPT !.at = calls + 1]]
    /\ UNCHANGED <<syncs, refs, obs, pc, fr, hist, fatal>>

CloneReturnsArgument(t, i) ==
    /\ Helper(t, "Clone.map", i, MapOf(i))
    /\ mrefs' = IF MapOf(i) = 0 THEN mrefs ELSE Append(mrefs, MapOf(i))
    /\ UNCHANGED heap

\* func Clone(m M) M
Clone(t, i) ==
    IF MapOf(i) = 0
    THEN /\ Helper(t, "Clone.map", i, 0)
         /\ UNCHANGED <<heap, mrefs>>
    ELSE /\ Helper(t, "Clone.map", i, Len(heap) + 1)
         /\ heap' = Append(heap, RangeCopy(EmptyMap, heap[MapOf(i)], DOMAIN heap[MapOf(i)]))
         /\ mrefs' = Append(mrefs, Len(heap) + 1)

\* func Copy(dst M1, src M2); src may be nil, a nil dst takes no entry
Copy(t, di, si) ==
    LET src == IF MapOf(si) = 0 THEN EmptyMap ELSE heap[MapOf(si)] IN
    /\ MapOf(di) # 0
    /\ Helper(t, "Copy.map", di, <<>>)
    /\ heap' = [heap EXCEPT ![MapOf(di)] = RangeCopy(@, src, DOMAIN src)]
    /\ UNCHANGED mrefs

\* func DeleteFunc(m M, del func(K, V) bool)
DeleteFunc(t, i, p) ==
    /\ Helper(t, "DeleteFunc.map", i, <<>>)
    /\ heap' = IF MapOf(i) = 0 THEN heap
               ELSE [heap EXCEPT ![MapOf(i)] = RangeDelete(@, p, DOMAIN @)]
    /\ UNCHANGED mrefs

\* for k, v := range m { if test(k, v) { r[k] = v } }
RECURSIVE RangeFilter(_, _, _, _)
RangeFilter(r, m, p, todo) ==
    IF todo = {} THEN r
    ELSE LET k == CHOOSE x \in todo : TRUE
         IN  RangeFilter(IF Test(p, k, m[k]) THEN Store(r, k, m[k]) ELSE r, m, p,
                         todo \ {k})

\* func Filter(m M, test func(K, V) bool) M
Filter(t, i, p) == Enter(t, 43, [op |-> "Filter.map", h |-> i, p |-> p])

FilterBody(t) ==
    /\ Running(t, 43)
    /\ IF MapOf(fr[t].h) = 0
       THEN /\ Leave(t, "ok", 0)
            /\ UNCHANGED <<heap, mrefs>>
       ELSE /\ heap' = Append(heap, RangeFilter(EmptyMap, heap[MapOf(fr[t].h)], fr[t].p,
                                                DOMAIN heap[MapOf(fr[t].h)]))
            /\ mrefs' = Append(mrefs, Len(heap) + 1)
            /\ Leave(t, "ok", Len(heap) + 1)
    /\ UNCHANGED <<syncs, refs, obs, calls, hist, fatal>>

\* ------------------------------------------------------------- Set
\* struct{}{}, the value of every entry of a Set
Unit == zero

\* the Set the program's reference i names, and its members
SetOf(i) == heap[mrefs[i]]

\* func (s Set[T]) Has(t T) bool
SetHas(t, i, x) ==
    Enter(t, 229, [op |-> "Set.Has", h |-> i, key |-> x, snap |-> SetOf(i)])

SetHasBody(t) ==
    /\ Running(t, 229)
    /\ Leave(t, "ok", fr[t].key \in DOMAIN SetOf(fr[t].h))
    /\ UNCHANGED <<heap, syncs, refs, mrefs, obs, calls, hist, fatal>>

\* func (s Set[T]) Add(t T) { s[t] = struct{}{} }
SetAdd(t, i, x) ==
    Enter(t, 234, [op |-> "Set.Add", h |-> i, key |-> x, snap |-> SetOf(i)])

SetAddBodyToggles(t) ==
    /\ Running(t, 234)
    /\ heap' = [heap EXCEPT ![mrefs[fr[t].h]] =
                    IF fr[t].key \in DOMAIN @ THEN Remove(@, fr[t].key)
                    ELSE Store(@, fr[t].key, Unit)]
    /\ Leave(t, "ok", <<>>)
    /\ UNCHANGED <<syncs, refs, mrefs, obs, calls, hist, fatal>>

SetAddBody(t) ==
    /\ Running(t, 234)
    /\ heap' = [heap EXCEPT ![mrefs[fr[t].h]] = Store(@, fr[t].key, Unit)]
    /\ Leave(t, "ok", <<>>)
    /\ UNCHANGED <<syncs, refs, mrefs, obs, calls, hist, fatal>>

\* func (s Set[T]) Remove(t T) { delete(s, t) }
SetRemove(t, i, x) ==
    Enter(t, 237, [op |-> "Set.Remove", h |-> i, key |-> x, snap |-> SetOf(i)])

SetRemoveBody(t) ==
    /\ Running(t, 237)
    /\ heap' = [heap EXCEPT ![mrefs[fr[t].h]] = Remove(@, fr[t].key)]
    /\ Leave(t, "ok", <<>>)
    /\ UNCHANGED <<syncs, refs, mrefs, obs, calls, hist, fatal>>

\* func (s Set[T]) Slice() []T
SetSlice(t, i) == Enter(t, 241, [op |-> "Set.Slice", h |-> i, snap |-> SetOf(i)])

SetSliceBody(t) ==
    /\ \/ /\ Running(t, 241)
          /\ fr' = [fr EXCEPT ![t].i = 0,
                              ![t].out = [j \in 1..Len0(SetOf(fr[t].h)) |-> zero]]
          /\ Goto(t, 242)
          /\ UNCHANGED ret
       \/ /\ Running(t, 242)
          /\ \E v \in (DOMAIN SetOf(fr[t].h)) \ fr[t].vis :
                IF fr[t].i < Len(fr[t].out)
                THEN /\ fr' = [fr EXCEPT ![t].out[fr[t].i + 1] = v,
                                         ![t].i = @ + 1,
                                         ![t].vis = @ \cup {v}]
                     /\ UNCHANGED <<pc, ret>>
                ELSE Leave(t, "panic", <<>>)
       \/ /\ Running(t, 242)
          /\ (DOMAIN SetOf(fr[t].h)) \ fr[t].vis = {}
          /\ Leave(t, "ok", fr[t].out)
    /\ UNCHANGED <<heap, syncs, refs, mrefs, obs, calls, hist, fatal>>

\* func (s Set[T]) Delete(items ...T)
SetDelete(t, i, items) ==
    Enter(t, 258, [op |-> "Set.Delete", h |-> i, keys |-> items, snap |-> SetOf(i)])

SetDeleteBody(t) ==
    /\ Running(t, 258)
    /\ \/ /\ fr[t].i < Len(fr[t].keys)
          /\ heap' = [heap EXCEPT ![mrefs[fr[t].h]] = Remove(@, fr[t].keys[fr[t].i + 1])]
          /\ fr' = [fr EXCEPT ![t].i = @ + 1]
          /\ UNCHANGED <<pc, ret>>
       \/ /\ fr[t].i = Len(fr[t].keys)
          /\ Leave(t, "ok", <<>>)
          /\ UNCHANGED heap
    /\ UNCHANGED <<syncs, refs, mrefs, obs, calls, hist, fatal>>

\* NewSet() followed by any sequence of Add calls
InitSet ==
    /\ heap \in {<<[k \in D |-> Unit]>> : D \in SUBSET Key}
    /\ syncs = <<>>
    /\ refs = <<>>
    /\ mrefs = <<1>>
    /\ obs = <<>>
    /\ pc = [t \in Threads |-> 0]
    /\ fr = [t \in Threads |-> Idle]
    /\ ret = [t \in Threads |-> NoRet]
    /\ calls = 0
    /\ hist = <<>>
    /\ fatal = FALSE

\* a Set is a plain map: its methods are called one at a time
SetCall(t) ==
    /\ \A u \in Threads : pc[u] = 0
    /\ \/ \E x \in Key : SetHas(t, 1, x)
       \/ \E x \in Key : SetAdd(t, 1, x)
       \/ \E x \in Key : SetRemove(t, 1, x)
       \/ SetSlice(t, 1)
       \/ \E items \in KeySeqs : SetDelete(t, 1, items)
    /\ UNCHANGED <<heap, syncs, refs, mrefs, obs, ret, hist, fatal>>

SetStep(t) ==
    \/ SetHasBody(t)
    \/ SetAddBody(t)
    \/ SetRemoveBody(t)
    \/ SetSliceBody(t)
    \/ SetDeleteBody(t)

NextSet == \E t \in Threads : SetCall(t) \/ SetStep(t)

SpecSet == InitSet /\ [][NextSet]_vars

\* ------------------------------------------------------------- clones
\* A Sync map and a plain map, both filled before the threads start.
InitClone ==
    /\ heap \in {<<m, n>> : m \in InitMaps, n \in InitMaps}
    /\ syncs = <<NewSync(1)>>
    /\ refs = <<1>>
    /\ mrefs = <<2>>
    /\ obs = <<>>
    /\ pc = [t \in Threads |-> 0]
    /\ fr = [t \in Threads |-> Idle]
    /\ ret = [t \in Threads |-> NoRet]
    /\ calls = 0
    /\ hist = <<>>
    /\ fatal = FALSE

CloneCall(t) ==
    \/ \E i \in 0..Len(mrefs) : Clone(t, i)
    \/ \E di \in 1..Len(mrefs), si \in 0..Len(mrefs) : Copy(t, di, si)
    \/ \E i \in 0..Len(mrefs), p \in Preds : DeleteFunc(t, i, p)
    \/ \E h \in 0..Len(refs) : SyncClone(t, h)
    \/ /\ \/ \E h \in 1..Len(refs), k \in Key, v \in Val : SyncSet(t, h, k, v)
          \/ \E h \in 1..Len(refs), ks \in KeySeqs : SyncDelete(t, h, ks)
       /\ UNCHANGED <<heap, syncs, refs, mrefs, obs, ret, hist, fatal>>

CloneStep(t) ==
    \/ RWMutexLock(t)
    \/ RWMutexUnlock(t)
    \/ RWMutexRLock(t)
    \/ RWMutexRUnlock(t)
    \/ Syncset(t)
    \/ SyncCloneBody(t)
    \/ SyncDeleteBody(t)

NextClone == \E t \in Threads : CloneCall(t) \/ CloneStep(t)

SpecClone == InitClone /\ [][NextClone]_vars

\* ------------------------------------------------------------- one call at a time
\* NewSync() followed by any sequence of Set calls: the map holds any contents.
InitSequential ==
    /\ heap \in {<<m>> : m \in Maps}
    /\ syncs = <<NewSync(1)>>
    /\ refs = <<1>>
    /\ mrefs = <<>>
    /\ obs = <<>>
    /\ pc = [t \in Threads |-> 0]
    /\ fr = [t \in Threads |-> Idle]
    /\ ret = [t \in Threads |-> NoRet]
    /\ calls = 0
    /\ hist = <<>>
    /\ fatal = FALSE

\* a call starts only when no other call is running
SequentialCall(t) ==
    /\ \A u \in Threads : pc[u] = 0
    /\ \/ SyncKeys(t, 1)
       \/ SyncSize(t, 1)
       \/ \E k \in Key : SyncGet(t, 1, k)
       \/ \E k \in Key, v \in Val : SyncSet(t, 1, k, v)
       \/ \E ks \in KeySeqs : SyncDelete(t, 1, ks)
    /\ UNCHANGED <<heap, syncs, refs, mrefs, obs, ret, hist, fatal>>

SequentialStep(t) ==
    \/ RWMutexLock(t)
    \/ RWMutexUnlock(t)
    \/ RWMutexRLock(t)
    \/ RWMutexRUnlock(t)
    \/ SyncKeysBody(t)
    \/ SyncSizeBody(t)
    \/ SyncGetBody(t)
    \/ Syncset(t)
    \/ SyncDeleteBody(t)

NextSequential == \E t \in Threads : SequentialCall(t) \/ SequentialStep(t)

SpecSequential == InitSequential /\ [][NextSequential]_vars

\* ------------------------------------------------------------- filters
\* A Sync map and a plain map, both filled before the threads start.
InitFilter ==
    /\ heap \in {<<m, n>> : m \in InitMaps, n \in InitMaps}
    /\ syncs = <<NewSync(1)>>
    /\ refs = <<1>>
    /\ mrefs = <<2>>
    /\ obs = <<>>
    /\ pc = [t \in Threads |-> 0]
    /\ fr = [t \in Threads |-> Idle]
    /\ ret = [t \in Threads |-> NoRet]
    /\ calls = 0
    /\ hist = <<>>
    /\ fatal = FALSE

FilterCall(t) ==
    \/ /\ \/ \E i \in 0..Len(mrefs), p \in Preds : Filter(t, i, p)
          \/ \E k \in Key, v \in Val : SyncSet(t, 1, k, v)
          \/ \E ks \in KeySeqs : SyncDelete(t, 1, ks)
       /\ UNCHANGED <<heap, syncs, refs, mrefs, obs, ret, hist, fatal>>
    \/ \E p \in Preds : SyncFilter(t, 1, p)
    \/ \E i \in 1..Len(mrefs), p \in Preds : DeleteFunc(t, i, p)

FilterStep(t) ==
    \/ RWMutexLock(t)
    \/ RWMutexUnlock(t)
    \/ RWMutexRLock(t)
    \/ RWMutexRUnlock(t)
    \/ FilterBody(t)
    \/ SyncFilterBody(t)
    \/ Syncset(t)
    \/ SyncDeleteBody(t)

NextFilter == \E t \in Threads : FilterCall(t) \/ FilterStep(t)

SpecFilter == InitFilter /\ [][NextFilter]_vars

\* ------------------------------------------------------------- properties of the Sync map
Objects == 1..Len(syncs)

Writers(s) == {t \in Threads : InWrite(t, s)}
Readers(s) == {t \in Threads : InRead(t, s)}

\* C1: at every instant the threads inside the critical sections of one Sync map
\* are any number of readers or exactly one writer, never both.
MutualExclusion ==
    \A s \in Objects :
        /\ Cardinality(Writers(s)) <= 1
        /\ Writers(s) # {} => Readers(s) = {}

\* a writer is inside its critical section while another thread waits at RLock
WriterInsideReaderWaits ==
    \E t, u \in Threads : t # u /\ InWrite(t, 1) /\ pc[u] \in RLockLines /\ fr[u].s = 1

\* C2: every Get returns a value that a serialization of the calls would return
\* (the value before or after the write it overlaps), and the program goes on.
GetLinearizable ==
    /\ ~fatal
    /\ \A t \in Threads :
          (ret[t].kind = "ok" /\ ret[t].op = "Get") => ret[t].val \in ret[t].lin

\* C6: once a call of Lock(f) or RLock(f) has ended, by return or by panic, the
\* lock it took is released.
LockReleasedOnExit ==
    \A t \in Threads :
        (pc[t] = 0 /\ ret[t].op \in {"Lock", "RLock"}) =>
            /\ syncs[ret[t].s].w # t
            /\ t \notin syncs[ret[t].s].r

\* C8: no thread reads the map through Size or Get while another thread is
\* inside a write critical section on it.
NoUnlockedRead ==
    \A t, u \in Threads :
        ~(t # u /\ pc[t] \in {305, 308} /\ InWrite(u, fr[t].s))

IsPerm(q, S) ==
    /\ Len(q) = Cardinality(S)
    /\ {q[i] : i \in 1..Len(q)} = S

Count(q, v) == Cardinality({i \in 1..Len(q) : q[i] = v})

\* C9: the sequence Keys() returns holds each key the map held when the read
\* lock was taken exactly once and nothing else, Values() holds the value of
\* each of those entries, and later writes do not alter what was returned.
SnapshotAtOneInstant ==
    \A t \in Threads :
        LET r == ret[t] IN
        /\ (r.kind = "ok" /\ r.op = "Keys") => IsPerm(r.val, DOMAIN r.snap)
        /\ (r.kind = "ok" /\ r.op = "Values") =>
              /\ Len(r.val) = Len0(r.snap)
              /\ \A v \in Val :
                    Count(r.val, v) = Cardinality({k \in DOMAIN r.snap : r.snap[k] = v})
        /\ (pc[t] \in {284, 296} /\ Unvisited(t) = {}) => fr[t].snap = Data(fr[t].s)

\* Keys() has returned two keys and the map has changed since
SnapshotOutlivesWrite ==
    \E t \in Threads :
        /\ ret[t].kind = "ok" /\ ret[t].op = "Keys"
        /\ Len(ret[t].val) = 2
        /\ DOMAIN Data(1) # DOMAIN ret[t].snap

\* ------------------------------------------------------------- properties of the Observable map
\* The change recorded at hist[p] comes right after the notifications of the
\* observers registered when its notification began: one each, in registration
\* order, with the change's key, its new value and the value it replaced.
BlockOf(p) ==
    LET e == hist[p]
        n == Len(e.reg)
    IN  /\ p > n
        /\ \A x \in 1..n : hist[p - n + x - 1] = Note(e.t, e.reg[x], e.key, e.new, e.old)
        /\ p - n > 1 => hist[p - n - 1].e # "note"

IsChange(e) == e.e # "note"

\* the change to key before position q, if any
LastChange(q, key) ==
    {p \in 1..(q - 1) :
        /\ IsChange(hist[p]) /\ hist[p].key = key
        /\ \A x \in (p + 1)..(q - 1) : ~(IsChange(hist[x]) /\ hist[x].key = key)}

\* C3: a store by Observable.Set (and by the setter of Lock) follows the
\* notification of every registered observer, once each in registration order,
\* with (k, v, old), old being the value stored before; the value is not stored
\* while the observers run; so consecutive Sets of one key chain old to new.
SetNotifiesThenStores ==
    /\ \A p \in DOMAIN hist : hist[p].e = "store" => BlockOf(p)
    /\ \A t \in Threads :
          (pc[t] \in {125, 130} /\ fr[t].cb = 130) =>
              /\ Lookup(Data(ObsSync), fr[t].key) = fr[t].old
              /\ Len(hist) >= fr[t].j
              /\ \A x \in 1..fr[t].j :
                    hist[Len(hist) - fr[t].j + x] =
                        Note(t, fr[t].reg[x], fr[t].key, fr[t].new, fr[t].old)
              /\ pc[t] = 130 => fr[t].j = Len(fr[t].reg)
    /\ \A q \in DOMAIN hist :
          hist[q].e = "store" =>
              /\ \A p \in LastChange(q, hist[q].key) : hist[q].old = hist[p].new
              /\ LastChange(q, hist[q].key) = {} => hist[q].old = zero

\* Set(k, 1) then Set(k, 2) on an empty map with two observers have both returned
TwoSetsNotified ==
    /\ Len(hist) = 6
    /\ hist[1].e = "note" /\ hist[3].e = "store" /\ hist[6].e = "store"
    /\ hist[3].key = hist[6].key
    /\ hist[3].new = 1 /\ hist[6].new = 2 /\ hist[6].old = 1
    /\ \A t \in Threads : pc[t] = 0 /\ ret[t].op = "O.Set"

\* C4: the notifications of one mutation and its store or removal are not
\* interleaved with those of another, and the old value they carry is the value
\* the map held for the key when the store or removal was applied; notifications
\* with no store or removal after them are still running, or a panic ended them
\* (the thread is outside the critical section and the lock is still held).
MutationsDoNotInterleave ==
    /\ \A p \in 1..(Len(hist) - 1) :
          hist[p].e = "note" =>
              /\ hist[p + 1].t = hist[p].t
              /\ hist[p + 1].key = hist[p].key
              /\ hist[p + 1].new = hist[p].new
              /\ hist[p + 1].old = hist[p].old
    /\ (hist # <<>> /\ hist[Len(hist)].e = "note") =>
          LET t == hist[Len(hist)].t IN
          \/ pc[t] \in {125, 130, 191, 203}
          \/ ~InWrite(t, ObsSync) /\ syncs[ObsSync].w = t /\ syncs[ObsSync].wl

\* two threads have each notified observers of a mutation of their own
TwoThreadsNotified ==
    \E p, q \in DOMAIN hist :
        /\ p < q
        /\ hist[p].e = "note" /\ hist[q].e = "note"
        /\ hist[p].t # hist[q].t

IsDelete(e) == e.e = "delete"

RemoveAll(m, ks) == [x \in (DOMAIN m) \ {ks[i] : i \in DOMAIN ks} |-> m[x]]

NotesOf(dels) ==
    LET F[n \in 0..Len(dels)] == IF n = 0 THEN 0 ELSE F[n - 1] + Len(dels[n].reg) + 1
    IN  F[Len(dels)]

\* C5: Observable.Delete(k1, ..., kn) takes the keys in order; for each it
\* notifies every registered observer once with (key, zero, the value stored, or
\* zero when the key is absent) and then removes the entry; the other entries
\* stay as they were.
DeleteNotifiesEachKeyInOrder ==
    \A t \in Threads :
        (fr[t].op = "O.Delete" /\ pc[t] \in {189, 193}) =>
            LET f == fr[t]
                evs == SubSeq(hist, f.h0 + 1, Len(hist))
                dels == SelectSeq(evs, IsDelete)
                Before(m) == RemoveAll(f.snap, SubSeq(f.keys, 1, m - 1))
            IN  /\ Len(dels) = f.i
                /\ \A m \in 1..f.i :
                      /\ dels[m].key = f.keys[m]
                      /\ dels[m].new = zero
                      /\ dels[m].old = Lookup(Before(m), f.keys[m])
                /\ \A p \in (f.h0 + 1)..Len(hist) :
                      /\ hist[p].t = t
                      /\ hist[p].e # "store"
                      /\ hist[p].e = "delete" => BlockOf(p)
                /\ Len(evs) = NotesOf(dels)
                /\ Data(ObsSync) = Before(f.i + 1)
                /\ pc[t] = 193 => f.i = Len(f.keys)

\* Delete(k1, k2) with k1 stored and k2 absent has notified two observers of both
DeleteOfAbsentKeyNotified ==
    \E t \in Threads :
        /\ fr[t].op = "O.Delete" /\ pc[t] = 193
        /\ Len(fr[t].keys) = 2
        /\ fr[t].keys[1] \in DOMAIN fr[t].snap
        /\ fr[t].keys[2] \notin DOMAIN fr[t].snap
        /\ Len(hist) - fr[t].h0 = 6

\* C7: when an observer panics, the call it aborts has released the write lock
\* by the time it ends.
ObserverPanicReleasesLock ==
    \A t \in Threads :
        (pc[t] = 0 /\ ret[t].kind = "panic" /\ ret[t].val = "observer") =>
            syncs[ObsSync].w # t

\* ------------------------------------------------------------- properties of clones
\* C10: Clone(m) and Sync.Clone() return a new container with the entries the
\* original holds at that moment (nil for a nil original); afterwards the entries
\* seen through a reference change only by a write made through that reference.
CloneIsIndependent ==
    [][/\ \A t \in Threads :
            (ret'[t] # ret[t] /\ ret'[t].op = "Clone.map") =>
                IF MapOf(ret'[t].h) = 0
                THEN ret'[t].val = 0 /\ heap' = heap /\ mrefs' = mrefs
                ELSE /\ ret'[t].val \notin DOMAIN heap
                     /\ mrefs' = Append(mrefs, ret'[t].val)
                     /\ heap'[ret'[t].val] = heap[MapOf(ret'[t].h)]
                     /\ \A m \in DOMAIN heap : heap'[m] = heap[m]
       /\ \A t \in Threads :
            (ret'[t] # ret[t] /\ ret'[t].op = "Clone") =>
                IF ret'[t].s = 0
                THEN ret'[t].val = 0 /\ heap' = heap /\ refs' = refs
                ELSE /\ pc[t] = 331
                     /\ ret'[t].val \notin {refs[i] : i \in DOMAIN refs}
                     /\ refs' = Append(refs, ret'[t].val)
                     /\ syncs[ret'[t].val].data \notin
                            {syncs[refs[i]].data : i \in DOMAIN refs} \cup
                            {mrefs[i] : i \in DOMAIN mrefs}
                     /\ Data(ret'[t].val) = Data(ret'[t].s)
                     /\ Data(ret'[t].val) = ret'[t].snap
                     /\ heap' = heap
       /\ \A i \in DOMAIN refs :
            heap'[syncs'[refs'[i]].data] # Data(refs[i]) =>
                \E t \in Threads :
                    /\ pc[t] \in {318, 385} /\ fr[t].h = i
                    /\ fr'[t] # fr[t] \/ pc'[t] # pc[t]
       /\ \A i \in DOMAIN mrefs :
            heap'[mrefs'[i]] # heap[mrefs[i]] =>
                \E t \in Threads :
                    /\ ret'[t] # ret[t]
                    /\ ret'[t].op \in {"Copy.map", "DeleteFunc.map"}
                    /\ ret'[t].h = i
      ]_vars

\* a Sync map has been cloned and a later Set or Delete has made the two differ
CloneDiverged ==
    /\ Len(refs) = 2
    /\ Data(refs[1]) # Data(refs[2])
    /\ \E t \in Threads : pc[t] = 0 /\ ret[t].op \in {"Set", "Delete"}

\* ------------------------------------------------------------- properties of sequential use
\* C11: with one call at a time, Set(k, v) leaves k stored with v, Delete
\* leaves each of its keys absent (an absent key changes nothing), both leave
\* every other entry as it was and nothing else changes the map; Get(k) returns
\* the value stored under k or zero, Keys() each stored key once, Size() the
\* number of stored keys.
SequentialSemantics ==
    [][\A t \in Threads :
         LET D == Data(1)
             E == heap'[syncs'[1].data]
         IN
         /\ (pc[t] = 318 /\ pc'[t] # 318) =>
               /\ fr[t].key \in DOMAIN E /\ E[fr[t].key] = fr[t].val
               /\ \A x \in Key \ {fr[t].key} :
                     (x \in DOMAIN E <=> x \in DOMAIN D) /\ Lookup(E, x) = Lookup(D, x)
         /\ (pc[t] = 385 /\ fr[t].i < Len(fr[t].keys) /\ fr'[t] # fr[t]) =>
               LET k == fr[t].keys[fr[t].i + 1] IN
               /\ k \notin DOMAIN E
               /\ k \notin DOMAIN D => E = D
               /\ \A x \in Key \ {k} :
                     (x \in DOMAIN E <=> x \in DOMAIN D) /\ Lookup(E, x) = Lookup(D, x)
         /\ (pc[t] = 388 /\ pc'[t] = 0) =>
               \A x \in 1..Len(fr[t].keys) : fr[t].keys[x] \notin DOMAIN E
         /\ (pc[t] = 314 /\ pc'[t] = 0) => Lookup(E, fr[t].key) = fr[t].val
         /\ (pc[t] = 308 /\ pc'[t] = 0) =>
               /\ ret'[t].kind = "ok"
               /\ ret'[t].val = Lookup(D, fr[t].key)
               /\ fr[t].key \notin DOMAIN D => ret'[t].val = zero
         /\ (pc[t] = 288 /\ pc'[t] = 0) =>
               ret'[t].kind = "ok" /\ IsPerm(ret'[t].val, DOMAIN D)
         /\ (pc[t] = 305 /\ pc'[t] = 0) =>
               ret'[t].kind = "ok" /\ ret'[t].val = Cardinality(DOMAIN D)
         /\ (E # D) => \E u \in Threads : pc[u] \in {318, 385}
         /\ ~fatal'
      ]_vars

\* Set has overwritten a stored value and a later Get has returned the new one
GetAfterSet ==
    \E t, u \in Threads :
        /\ t # u /\ pc[t] = 0 /\ pc[u] = 0
        /\ ret[u].op = "Set" /\ ret[u].snap # <<>> /\ ret[u].snap # Data(1)
        /\ DOMAIN ret[u].snap = DOMAIN Data(1)
        /\ ret[t].op = "Get" /\ ret[t].val # zero
        /\ \E k \in DOMAIN Data(1) : ret[u].snap[k] # Data(1)[k] /\ ret[t].val = Data(1)[k]

\* ------------------------------------------------------------- properties of Observable.Lock
IsStore(e) == e.e = "store"

\* the contents after the first n of the stores made on m
Stored(m, stores, n) ==
    LET F[x \in 0..n] == IF x = 0 THEN m
                         ELSE Store(F[x - 1], stores[x].key, stores[x].new)
    IN  F[n]

\* C12: while f runs under Observable.Lock the write lock stays held and no other
\* thread is inside a critical section; each call of the setter notifies every
\* registered observer once, in registration order, with (key, val, the value
\* stored under key then) and afterwards stores val; nothing else is notified or
\* stored in between.
LockSetterNotifiesThenStores ==
    \A t \in Threads :
        (fr[t].op = "O.Lock" /\ pc[t] \in {212, 129, 125, 130, 213}) =>
            LET f == fr[t]
                evs == SubSeq(hist, f.h0 + 1, Len(hist))
                stores == SelectSeq(evs, IsStore)
                done == IF pc[t] \in {212, 213} THEN f.i ELSE f.i - 1
                pending == IF pc[t] \in {125, 130} THEN f.j ELSE 0
            IN  /\ syncs[ObsSync].w = t /\ syncs[ObsSync].wl
                /\ \A u \in Threads \ {t} : ~InWrite(u, ObsSync) /\ ~InRead(u, ObsSync)
                /\ Len(stores) = done
                /\ \A p \in (f.h0 + 1)..Len(hist) :
                      /\ hist[p].t = t
                      /\ hist[p].e # "delete"
                      /\ hist[p].e = "store" => BlockOf(p) /\ hist[p].reg = obs
                /\ \A m \in 1..done :
                      stores[m].old = Lookup(Stored(f.snap, stores, m - 1), stores[m].key)
                /\ Data(ObsSync) = Stored(f.snap, stores, done)
                /\ Len(evs) = done * (Len(obs) + 1) + pending
                /\ \A x \in 1..pending :
                      hist[Len(hist) - pending + x] =
                          Note(t, obs[x], f.key, f.new, Lookup(Data(ObsSync), f.key))
                /\ pc[t] = 130 => pending = Len(obs)

\* f has called the setter twice for one key and Lock is about to unlock
LockSetTwice ==
    \E t \in Threads :
        /\ fr[t].op = "O.Lock" /\ pc[t] = 213 /\ fr[t].i = 2
        /\ Len(hist) - fr[t].h0 = 6
        /\ hist[Len(hist)].key = hist[Len(hist) - 3].key
        /\ hist[Len(hist)].old = hist[Len(hist) - 3].new
        /\ hist[Len(hist)].new # hist[Len(hist)].old

\* ------------------------------------------------------------- properties of Observable.DeleteFunc
\* C13: DeleteFunc(test) removes exactly the entries that satisfy test; each
\* removal follows the notification of every registered observer, once each,
\* with (key, zero, value); an entry that does not satisfy test is neither
\* notified nor removed.
DeleteFuncRemovesMatching ==
    \A t \in Threads :
        (fr[t].op = "O.DeleteFunc" /\ pc[t] \in {200, 206}) =>
            LET f == fr[t]
                evs == SubSeq(hist, f.h0 + 1, Len(hist))
                dels == SelectSeq(evs, IsDelete)
                gone == {dels[m].key : m \in 1..Len(dels)}
                matching == {k \in DOMAIN f.snap : Test(f.p, k, f.snap[k])}
            IN  /\ \A p \in (f.h0 + 1)..Len(hist) :
                      /\ hist[p].t = t
                      /\ hist[p].e # "store"
                      /\ hist[p].e = "delete" => BlockOf(p)
                      /\ hist[p].key \in matching
                      /\ hist[p].new = zero
                      /\ hist[p].old = f.snap[hist[p].key]
                /\ Cardinality(gone) = Len(dels)
                /\ Len(evs) = NotesOf(dels)
                /\ Data(ObsSync) = [k \in (DOMAIN f.snap) \ gone |-> f.snap[k]]
                /\ f.vis \cap matching = {}
                /\ pc[t] = 206 => gone = matching

\* DeleteFunc has removed one of two entries, after notifying two observers
DeleteFuncKeptOne ==
    \E t \in Threads :
        /\ fr[t].op = "O.DeleteFunc" /\ pc[t] = 206
        /\ Len0(fr[t].snap) = 2 /\ Len0(Data(ObsSync)) = 1
        /\ Len(hist) - fr[t].h0 = 3

\* ------------------------------------------------------------- properties of calls made by callbacks
\* C14: once a function running under a map's lock (f of Lock, RLock or Each,
\* an observer) has called Set or Delete on that map, the inner call stays at
\* its rw.Lock(), the lock the outer call holds stays held, and once the lock
\* has a writer waiting or inside, every other thread at a Lock or RLock of that
\* map stays there.
ReentrantCallBlocksForever ==
    [][\A t \in Threads :
         fr[t].up # <<>> =>
            LET s == fr[t].s
                outer == fr[t].up[1]
            IN  /\ pc[t] \in LockLines
                /\ outer.fr.s = s
                /\ pc'[t] = pc[t]
                /\ fr'[t].up = fr[t].up
                /\ outer.pc \in {405, 125} => syncs'[s].w = t /\ syncs'[s].wl
                /\ outer.pc \in {412, 338} => t \in syncs'[s].r
                /\ \A u \in Threads \ {t} :
                      (pc[u] \in LockLines \cup RLockLines /\ fr[u].s = s
                          /\ syncs[s].w # 0) => pc'[u] = pc[u]
      ]_vars

\* f of RLock has called Set, which waits for its own read lock to be released,
\* while another thread waits at an RLock of the same map
ReentrantCallAndWaiter ==
    \E t, u \in Threads :
        /\ t # u
        /\ fr[t].up # <<>> /\ fr[t].up[1].pc = 412 /\ pc[t] = 312
        /\ syncs[fr[t].s].w = t
        /\ pc[u] \in RLockLines /\ fr[u].s = fr[t].s

\* ------------------------------------------------------------- properties of the Observable's readers
ReadOps == {"Keys", "Values", "Size", "Get", "Each", "Filter", "Find", "Reduce", "RLock"}

NotifyingOps == {"O.Set", "O.Delete", "O.DeleteFunc", "O.Lock"}

\* thread t takes the step
Acts(t) == pc'[t] # pc[t] \/ fr'[t] # fr[t] \/ ret'[t] # ret[t]

\* C15: no step of Keys, Values, Size, Get, Each, Filter, Find, ReduceObservable
\* or RLock on an Observable invokes an observer or changes the entries or the
\* observer list; an observer is invoked only by a thread inside Set, Delete,
\* DeleteFunc or Lock.
ReadsNotifyNobody ==
    [][/\ \A t \in Threads :
            (Acts(t) /\ (fr[t].op \in ReadOps \/ fr'[t].op \in ReadOps)) =>
                /\ hist' = hist
                /\ obs' = obs
                /\ heap'[syncs'[ObsSync].data] = Data(ObsSync)
       /\ hist' # hist =>
            /\ Len(hist') = Len(hist) + 1
            /\ SubSeq(hist', 1, Len(hist)) = hist
            /\ \E t \in Threads :
                  /\ Acts(t) /\ fr[t].op \in NotifyingOps
                  /\ hist'[Len(hist')].t = t
      ]_vars

\* Each has visited two entries of an Observable with two observers, and
\* nothing has been notified
EachNotifiedNobody ==
    \E t \in Threads :
        /\ pc[t] = 0 /\ ret[t].kind = "ok" /\ ret[t].op = "Each"
        /\ Len(ret[t].val) = 2
        /\ Len(obs) = 2
        /\ hist = InitHist(Data(ObsSync))

\* ------------------------------------------------------------- properties of filters
\* the entries of m that satisfy p
Matching(m, p) == [k \in {x \in DOMAIN m : Test(p, x, m[x])} |-> m[k]]

\* C16: Filter(m, p) and Sync.Filter(p) return a new map that holds exactly the
\* entries of the source that satisfy p, with their values, so no more entries
\* than the source; they leave the source as it was; Filter of a nil map is nil.
FilterKeepsMatching ==
    [][\A t \in Threads :
         /\ (pc[t] = 43 /\ pc'[t] = 0) =>
               LET m == MapOf(fr[t].h)
                   r == ret'[t].val
               IN  /\ ret'[t].kind = "ok"
                   /\ IF m = 0
                      THEN r = 0 /\ heap' = heap /\ mrefs' = mrefs
                      ELSE /\ r \notin DOMAIN heap /\ r \in DOMAIN heap'
                           /\ heap'[r] = Matching(heap[m], fr[t].p)
                           /\ Len0(heap'[r]) <= Len0(heap[m])
                           /\ \A x \in DOMAIN heap : heap'[x] = heap[x]
         /\ (pc[t] = 353 /\ pc'[t] = 0) =>
               LET s == fr[t].s
                   r == ret'[t].val
               IN  /\ ret'[t].kind = "ok"
                   /\ r \in DOMAIN heap
                   /\ r # syncs[s].data
                   /\ r \notin {mrefs[i] : i \in DOMAIN mrefs}
                   /\ heap[r] = Matching(Data(s), fr[t].p)
                   /\ Len0(heap[r]) <= Len0(Data(s))
                   /\ Data(s) = fr[t].snap
                   /\ heap' = heap
         /\ (Acts(t) /\ fr[t].op = "Filter") =>
               \A x \in DOMAIN heap : x # fr[t].out => heap'[x] = heap[x]
      ]_vars

\* Sync.Filter has returned one of the two entries the map held
FilterKeptOne ==
    \E t \in Threads :
        /\ pc[t] = 0 /\ ret[t].kind = "ok" /\ ret[t].op = "Filter"
        /\ Len0(ret[t].snap) = 2
        /\ Len0(heap[ret[t].val]) = 1

\* ------------------------------------------------------------- properties of Set
\* C17: Add(x) makes x a member and Remove(x) and Delete(..., x, ...) make it a
\* non-member, each leaving the membership of every other element as it was;
\* Add of a member and Remove of a non-member change nothing; Has(x) tells
\* whether x is a member; Slice() holds each member exactly once.
SetMembership ==
    [][\A t \in Threads :
         LET S == IF Len(mrefs) = 0 THEN {} ELSE DOMAIN heap[mrefs[1]]
             T == IF Len(mrefs) = 0 THEN {} ELSE DOMAIN heap'[mrefs[1]]
             x == fr[t].key
         IN
         /\ (pc[t] = 234 /\ pc'[t] = 0) =>
               /\ T = S \cup {x}
               /\ x \in S => heap' = heap
         /\ (pc[t] = 237 /\ pc'[t] = 0) =>
               /\ T = S \ {x}
               /\ x \notin S => heap' = heap
         /\ (pc[t] = 258 /\ fr[t].i < Len(fr[t].keys)) =>
               T = S \ {fr[t].keys[fr[t].i + 1]}
         /\ (pc[t] = 258 /\ pc'[t] = 0) =>
               /\ T = S
               /\ T = (DOMAIN fr[t].snap) \ {fr[t].keys[j] : j \in 1..Len(fr[t].keys)}
         /\ (pc[t] = 229 /\ pc'[t] = 0) =>
               /\ ret'[t].val = (x \in S)
               /\ heap' = heap
         /\ (pc[t] = 242 /\ pc'[t] = 0) =>
               /\ ret'[t].kind = "ok"
               /\ Len(ret'[t].val) = Cardinality(S)
               /\ IsPerm(ret'[t].val, S)
               /\ heap' = heap
      ]_vars

\* Add(x) of a non-member is followed by a Has(x) that returns true
HasAfterAdd ==
    \E t, u \in Threads :
        /\ t # u /\ pc[t] = 0 /\ pc[u] = 0
        /\ ret[u].op = "Set.Add" /\ ret[t].op = "Set.Has"
        /\ ret[t].val
        /\ \E x \in Key : x \notin DOMAIN ret[u].snap /\ DOMAIN ret[t].snap = {x}

\* ------------------------------------------------------------- properties of Observable.Observe
\* C18: an observer whose Observe call has completed is in the observer list,
\* so that the mutations that begin afterwards notify it: when every thread has
\* completed one Observe call the list holds at least that many observers.
ObserveCompletedIsRegistered ==
    (\A t \in Threads : pc[t] = 0 /\ ret[t].kind = "ok" /\ ret[t].op = "O.Observe") =>
        Len(obs) >= NumThreads

\* ------------------------------------------------------------- properties of an aborting observer
\* thread t is inside o.callback and the observer it is calling panics
ObserverAborts(t) ==
    pc[t] = 125 /\ pc'[t] = 0 /\ ret'[t].kind = "panic" /\ ret'[t].val = "observer"

\* C19: when an observer panics during Observable.Set(k, v) the value is not
\* stored and the entries are those the call found; during a setter call under
\* Observable.Lock the entries are those left by the earlier setter calls; during
\* Observable.Delete(k1, ..., kn) while notifying for ki the keys before ki are
\* removed and every other entry, ki and the later keys among them, is as the
\* call found it.
ObserverAbortLeavesEntries ==
    [][\A t \in Threads :
          ObserverAborts(t) =>
              LET f == fr[t]
                  evs == SubSeq(hist, f.h0 + 1, Len(hist))
                  stores == SelectSeq(evs, IsStore)
                  gone == SubSeq(f.keys, 1, f.i)
              IN  /\ Data(ObsSync)' = Data(ObsSync)
                  /\ f.op = "O.Set" =>
                        /\ Data(ObsSync) = f.snap
                        /\ Lookup(Data(ObsSync), f.key) = f.old
                  /\ f.op = "O.Lock" =>
                        /\ Len(stores) = f.i - 1
                        /\ Data(ObsSync) = Stored(f.snap, stores, f.i - 1)
                        /\ Lookup(Data(ObsSync), f.key) = f.old
                  /\ f.op = "O.Delete" =>
                        /\ f.key = f.keys[f.i + 1]
                        /\ Data(ObsSync) = RemoveAll(f.snap, gone)
                        /\ \A m \in (f.i + 1)..Len(f.keys) :
                              f.keys[m] \notin {gone[x] : x \in DOMAIN gone} =>
                                  Lookup(Data(ObsSync), f.keys[m]) = Lookup(f.snap, f.keys[m])]_vars

\* Delete removed its first key and was aborted by an observer while notifying
\* for its second key, which is still stored
DeleteAbortedAtSecondKey ==
    \E t \in Threads :
        /\ pc[t] = 0 /\ ret[t].kind = "panic" /\ ret[t].val = "observer"
        /\ ret[t].op = "O.Delete"
        /\ Len0(ret[t].snap) = 2 /\ Len0(Data(ObsSync)) = 1
        /\ hist[Len(hist)].e = "note" /\ hist[Len(hist)].t = t
        /\ hist[Len(hist)].key \in DOMAIN Data(ObsSync)

\* ------------------------------------------------------------- properties under fair scheduling
\* no thread is inside a call
AllIdle == \A t \in Threads : pc[t] = 0

\* nobody holds, or waits to hold, the lock of Sync object s
LockFree(s) == syncs[s].w = 0 /\ ~syncs[s].wl /\ syncs[s].r = {}

\* C20: when no callback panics or calls back into the map, every call a thread
\* has started on the shared Sync returns, and when all calls have returned the
\* lock is released.
EveryCallReturns ==
    /\ \A t \in Threads : (pc[t] # 0) ~> (pc[t] = 0)
    /\ [](AllIdle => LockFree(1))

\* every call returns unless a read made without the lock has stopped the program
EveryCallReturnsOrRaced ==
    /\ \A t \in Threads : (pc[t] # 0) ~> (pc[t] = 0 \/ fatal)
    /\ [](AllIdle => LockFree(1))

=============================================================================
